---- MODULE Spec2Model ----
(***************************************************************************)
(* Model of examples/http_server/integration-test/backend_server.py: the   *)
(* HTTP backend fixture served by socketserver.TCPServer.                   *)
(*                                                                         *)
(* Connections are numbered in the order in which clients open them.  A    *)
(* connection waits in the listen backlog until serve_forever accepts it;  *)
(* the request line is read when the connection is accepted.  The handler  *)
(* (do_POST / do_GET) is modelled statement by statement so that the       *)
(* read-modify-write of request_count and the blocking time.sleep are      *)
(* separate steps.  BaseHTTPRequestHandler speaks HTTP/1.0 by default, so  *)
(* a connection carries one request and is shut down after it.             *)
(*                                                                         *)
(* Durations are counted in tenths of a second (one SleepTick = 0.1 s);    *)
(* the float held in `delay` is represented by its number of tenths.       *)
(***************************************************************************)
EXTENDS Integers, Sequences, FiniteSets, TLC

\* ---------------------------------------------------------------- bounds
\* Number of client connections opened during a run.
MaxConns == 3
\* Largest value time.time() is observed to return (abstract clock reading).
MaxStamp == 1

Conns == 1..MaxConns
Timestamps == 0..MaxStamp

\* SERVER_ID = os.environ.get("SERVER_ID", "unknown")
SERVER_ID == "unknown"

\* Request methods dispatched by BaseHTTPRequestHandler to do_GET / do_POST.
Methods == {"GET", "POST"}

\* Request targets (self.path) sent by the clients.  Origin-form targets
\* without percent-escapes or "+".
Targets ==
  { "/health", "/healthz", "/health;v", "/api", "/unknown/path",
    "/api/echo", "/api/echo?x=1", "/api/users?id=7",
    "/api/slow", "/api/slow?delay=0.2", "/api/slow?delay=0",
    "/api/slow?delay=", "/api/slow?delay=abc", "/api/slow?delay=-1",
    "/api/slow?delay=nan", "/api/slow?x=1&delay=0.3&delay=9" }

\* ------------------------------------------------------- string helpers
Char(s, i) == SubSeq(s, i, i)

\* str.find(ch): index of the first occurrence of ch at or after `from`, 0 if none.
FindFrom(s, ch, from) ==
  LET hits == {i \in from..Len(s) : Char(s, i) = ch}
  IN  IF hits = {} THEN 0 ELSE CHOOSE i \in hits : \A j \in hits : i <= j

Find(s, ch) == FindFrom(s, ch, 1)

\* str.rfind(ch): index of the last occurrence, 0 if none.
RFind(s, ch) ==
  LET hits == {i \in 1..Len(s) : Char(s, i) = ch}
  IN  IF hits = {} THEN 0 ELSE CHOOSE i \in hits : \A j \in hits : i >= j

\* str.startswith(prefix)
StartsWith(s, prefix) ==
  Len(s) >= Len(prefix) /\ SubSeq(s, 1, Len(prefix)) = prefix

\* s.split(ch, 1)[0] and s.split(ch, 1)[1] ("" when ch does not occur)
Before(s, ch) == IF Find(s, ch) = 0 THEN s ELSE SubSeq(s, 1, Find(s, ch) - 1)
After(s, ch) == IF Find(s, ch) = 0 THEN "" ELSE SubSeq(s, Find(s, ch) + 1, Len(s))

\* --------------------------------------------------------------- urlparse
\* urllib.parse.urlparse(self.path) for a target with no scheme and no
\* netloc: the fragment is cut at the first "#", the query at the first "?",
\* and the params at the first ";" of the last path segment.
UrlParse(url) ==
  LET nofrag == Before(url, "#")
      full   == Before(nofrag, "?")
      semi   == FindFrom(full, ";", IF RFind(full, "/") = 0 THEN 1 ELSE RFind(full, "/"))
  IN  [ path  |-> IF semi = 0 THEN full ELSE SubSeq(full, 1, semi - 1),
        query |-> After(nofrag, "?") ]

\* parse_qs(query).get(key, [default])[0]: the fields are separated by "&";
\* a field without "=" or with an empty value is dropped; the first value
\* kept for `key` is returned, `default` when there is none.
RECURSIVE QueryGet(_, _, _)
QueryGet(query, key, default) ==
  IF query = "" THEN default
  ELSE LET field == Before(query, "&")
           rest  == After(query, "&")
       IN  IF Find(field, "=") # 0 /\ Before(field, "=") = key /\ After(field, "=") # ""
           THEN After(field, "=")
           ELSE QueryGet(rest, key, default)

\* ------------------------------------------------------------------ float
Digits == "0123456789"
IsDigits(s) == \A i \in 1..Len(s) : Find(Digits, Char(s, i)) # 0

RECURSIVE DigitsValue(_)
DigitsValue(s) ==
  IF s = "" THEN 0
  ELSE 10 * DigitsValue(SubSeq(s, 1, Len(s) - 1)) + (Find(Digits, Char(s, Len(s))) - 1)

\* float(text): an optional "-", then "nan", "inf", or decimal digits with
\* an optional fraction.  kind "err" stands for the ValueError float()
\* raises.  A number is returned in tenths; the modelled inputs carry at
\* most one fractional digit.
ParseFloat(text) ==
  LET neg  == StartsWith(text, "-")
      body == IF neg THEN SubSeq(text, 2, Len(text)) ELSE text
      int  == Before(body, ".")
      frac == After(body, ".")
  IN  IF body = "nan" THEN [kind |-> "nan", val |-> 0]
      ELSE IF body = "inf" THEN [kind |-> "inf", val |-> 0]
      ELSE IF /\ IsDigits(int) /\ IsDigits(frac)
              /\ Len(int) + Len(frac) >= 1
              /\ Len(frac) <= 1
              /\ (Find(body, ".") = 0 => frac = "")
           THEN [kind |-> "num",
                 val  |-> (IF neg THEN -1 ELSE 1) *
                          (10 * DigitsValue(int) + DigitsValue(frac))]
           ELSE [kind |-> "err", val |-> 0]

\* time.sleep(secs) raises ValueError for a negative or NaN argument and
\* OverflowError for an infinite one.
SleepRaises(d) == d.kind # "num" \/ d.val < 0


\* ------------------------------------------------------------ JSON bodies
NoBody == [none |-> TRUE]
NoResponse == [status |-> 0, ctype |-> "", body |-> NoBody]

\* send_response(status); send_header("Content-Type", "application/json");
\* end_headers(); wfile.write(json.dumps(body).encode())
JsonResponse(status, body) ==
  [status |-> status, ctype |-> "application/json", body |-> body]

HealthBody == [status |-> "healthy", server_id |-> SERVER_ID]
EchoBody(count, rawpath, now) ==
  [server_id |-> SERVER_ID, request_count |-> count, path |-> rawpath, timestamp |-> now]
SlowBody(d) == [server_id |-> SERVER_ID, delay |-> d]
ApiBody(count, path) ==
  [server_id |-> SERVER_ID, request_count |-> count, path |-> path]
NotFoundBody == [error |-> "not found"]

\* ------------------------------------------------------------------ state
VARIABLES
  request_count,  \* the module-level counter
  backlog,        \* connections waiting in the listening socket's queue
  pc,             \* per connection: where its client / its handler stands
  req,            \* per connection: the request read from it
  tmp,            \* per connection: request_count as loaded by "+= 1"
  delay,          \* per connection: the local `delay` of the /api/slow branch
  sleepLeft,      \* per connection: tenths of time.sleep still to pass
  slept,          \* per connection: tenths spent inside time.sleep
  resp,           \* per connection: what has been written to wfile
  lastCount,      \* history: the last request_count value put in a response
  peak,           \* history: most connections ever open at the same time
  last            \* history: the request handled last and what came of it

hist == <<lastCount, peak, last>>
vars == <<request_count, backlog, pc, req, tmp, delay, sleepLeft, slept, resp, hist>>

NoRequest == [method |-> "", target |-> ""]
NoDelay == [kind |-> "", val |-> 0]

\* Positions at which a connection's request is inside the handler.
HandlerPcs == {"do_POST", "do_GET", "store", "route", "sleep", "finish", "raised"}
InHandler(c) == pc[c] \in HandlerPcs
Open(c) == pc[c] = "queued" \/ InHandler(c)

\* What a client observes of a handled request: the status, the body with
\* the timestamp left out and request_count taken relative to the counter
\* the handler loaded, and the change of the counter.
Outcome(c) ==
  [ status |-> resp[c].status,
    fields |-> DOMAIN resp[c].body,
    values |-> [f \in DOMAIN resp[c].body \ {"timestamp"} |->
                  IF f = "request_count" THEN resp[c].body[f] - tmp[c]
                  ELSE resp[c].body[f]],
    delta  |-> request_count - tmp[c] ]

NoLast == [method |-> "", target |-> "", outcome |-> NoBody]

Init ==
  /\ request_count = 0
  /\ backlog = <<>>
  /\ pc = [c \in Conns |-> "new"]
  /\ req = [c \in Conns |-> NoRequest]
  /\ tmp = [c \in Conns |-> 0]
  /\ delay = [c \in Conns |-> NoDelay]
  /\ sleepLeft = [c \in Conns |-> 0]
  /\ slept = [c \in Conns |-> 0]
  /\ resp = [c \in Conns |-> NoResponse]
  /\ lastCount = 0
  /\ peak = 0
  /\ last = NoLast

\* A client opens connection c and sends its request; the connection sits
\* in the listen backlog until the server accepts it.
Connect(c) ==
  /\ pc[c] = "new"
  /\ \A d \in Conns : d < c => pc[d] # "new"
  /\ pc' = [pc EXCEPT ![c] = "queued"]
  /\ backlog' = Append(backlog, c)
  /\ peak' = LET n == Cardinality({d \in Conns : Open(d)}) + 1
             IN  IF n > peak THEN n ELSE peak
  /\ UNCHANGED <<request_count, req, tmp, delay, sleepLeft, slept, resp, lastCount, last>>

\* A ThreadingMixIn server hands every accepted connection to a new thread
\* and accepts the next one at once.
ServerFreeThreaded == TRUE

\* socketserver.TCPServer handles a request inside serve_forever's own
\* thread: the loop returns to accept() only when the handler has returned.
ServerFree == \A c \in Conns : ~InHandler(c)

\* serve_forever: accept the oldest queued connection, read its request
\* line (method m, target t) and call do_<m>.
AcceptRequest(c, m, t) ==
  /\ backlog # <<>>
  /\ Head(backlog) = c
  /\ ServerFree
  /\ req' = [req EXCEPT ![c] = [method |-> m, target |-> t]]
  /\ pc' = [pc EXCEPT ![c] = IF m = "POST" THEN "do_POST" ELSE "do_GET"]
  /\ backlog' = Tail(backlog)
  /\ UNCHANGED <<request_count, tmp, delay, sleepLeft, slept, resp, hist>>

Accept(c) == \E m \in Methods, t \in Targets : AcceptRequest(c, m, t)

\* Without a do_POST method BaseHTTPRequestHandler answers 501.
DoPOSTUnsupported(c) ==
  /\ pc[c] = "do_POST"
  /\ pc' = [pc EXCEPT ![c] = "finish"]
  /\ resp' = [resp EXCEPT ![c] =
                [status |-> 501, ctype |-> "text/html", body |-> [error |-> "unsupported"]]]
  /\ UNCHANGED <<request_count, backlog, req, tmp, delay, sleepLeft, slept, hist>>

\* def do_POST(self): self.do_GET()
DoPOST(c) ==
  /\ pc[c] = "do_POST"
  /\ pc' = [pc EXCEPT ![c] = "do_GET"]
  /\ UNCHANGED <<request_count, backlog, req, tmp, delay, sleepLeft, slept, resp, hist>>

\* request_count += 1, first half: load the global.
LoadCount(c) ==
  /\ pc[c] = "do_GET"
  /\ tmp' = [tmp EXCEPT ![c] = request_count]
  /\ pc' = [pc EXCEPT ![c] = "store"]
  /\ UNCHANGED <<request_count, backlog, req, delay, sleepLeft, slept, resp, hist>>

\* An increment skipped for the health probe.
StoreCountExceptHealth(c) ==
  /\ pc[c] = "store"
  /\ request_count' = IF Before(req[c].target, "?") = "/health"
                      THEN request_count ELSE tmp[c] + 1
  /\ pc' = [pc EXCEPT ![c] = "route"]
  /\ UNCHANGED <<backlog, req, tmp, delay, sleepLeft, slept, resp, hist>>

\* request_count += 1, second half: store the sum.
StoreCount(c) ==
  /\ pc[c] = "store"
  /\ request_count' = tmp[c] + 1
  /\ pc' = [pc EXCEPT ![c] = "route"]
  /\ UNCHANGED <<backlog, req, tmp, delay, sleepLeft, slept, resp, hist>>

\* A prefix test that forgets the trailing slash.
RouteLoosePrefix(path) ==
  IF path = "/health" THEN "health"
  ELSE IF path = "/api/echo" THEN "echo"
  ELSE IF path = "/api/slow" THEN "slow"
  ELSE IF StartsWith(path, "/api") THEN "api"
  ELSE "notfound"

\* The branch of do_GET's if / elif chain taken for a parsed path.
Route(path) ==
  IF path = "/health" THEN "health"
  ELSE IF path = "/api/echo" THEN "echo"
  ELSE IF path = "/api/slow" THEN "slow"
  ELSE IF StartsWith(path, "/api/") THEN "api"
  ELSE "notfound"

\* urlparse(t) for every target a client sends.
ParsedTargets == [t \in Targets |-> UrlParse(t)]

\* parsed = urlparse(self.path)
Parsed(c) == ParsedTargets[req[c].target]
AtRoute(c, r) == pc[c] = "route" /\ Route(Parsed(c).path) = r

\* Write a response and return from the handler.
Respond(c, r) ==
  /\ resp' = [resp EXCEPT ![c] = r]
  /\ pc' = [pc EXCEPT ![c] = "finish"]

DoHealth(c) ==
  /\ AtRoute(c, "health")
  /\ Respond(c, JsonResponse(200, HealthBody))
  /\ UNCHANGED <<request_count, backlog, req, tmp, delay, sleepLeft, slept, hist>>

DoEcho(c) ==
  /\ AtRoute(c, "echo")
  /\ \E now \in Timestamps :
       Respond(c, JsonResponse(200, EchoBody(request_count, req[c].target, now)))
  /\ lastCount' = request_count
  /\ UNCHANGED <<request_count, backlog, req, tmp, delay, sleepLeft, slept, peak, last>>

DoApi(c) ==
  /\ AtRoute(c, "api")
  /\ Respond(c, JsonResponse(200, ApiBody(request_count, Parsed(c).path)))
  /\ lastCount' = request_count
  /\ UNCHANGED <<request_count, backlog, req, tmp, delay, sleepLeft, slept, peak, last>>

DoNotFound(c) ==
  /\ AtRoute(c, "notfound")
  /\ Respond(c, JsonResponse(404, NotFoundBody))
  /\ UNCHANGED <<request_count, backlog, req, tmp, delay, sleepLeft, slept, hist>>

\* A float() that falls back to the default instead of raising.
FloatOrDefault(text) ==
  IF ParseFloat(text).kind = "err" THEN ParseFloat("1") ELSE ParseFloat(text)

\* float(text) as do_GET calls it.
Float(text) == ParseFloat(text)

\* float(parse_qs(parsed.query).get("delay", ["1"])[0]) for every target.
DelayArgs == [t \in Targets |-> Float(QueryGet(ParsedTargets[t].query, "delay", "1"))]

\* A sleep that returns at once.
SleepTicksNone(d) == 0

\* Tenths of a second time.sleep(delay) blocks the calling thread.
SleepTicks(d) == d.val

\* A handler that takes its increment back when it fails.
RaiseUncounted(c) ==
  /\ pc' = [pc EXCEPT ![c] = "raised"]
  /\ request_count' = request_count - 1

\* An exception leaves do_GET; nothing the handler did before is undone.
Raise(c) ==
  /\ pc' = [pc EXCEPT ![c] = "raised"]
  /\ UNCHANGED request_count

\* delay = float(parse_qs(parsed.query).get("delay", ["1"])[0]); time.sleep(delay)
DoSlow(c) ==
  /\ AtRoute(c, "slow")
  /\ LET d == DelayArgs[req[c].target]
     IN  IF d.kind = "err"
         THEN /\ Raise(c)
              /\ UNCHANGED <<delay, sleepLeft>>
         ELSE IF SleepRaises(d)
         THEN /\ Raise(c)
              /\ delay' = [delay EXCEPT ![c] = d]
              /\ UNCHANGED sleepLeft
         ELSE /\ pc' = [pc EXCEPT ![c] = "sleep"]
              /\ delay' = [delay EXCEPT ![c] = d]
              /\ sleepLeft' = [sleepLeft EXCEPT ![c] = SleepTicks(d)]
              /\ UNCHANGED request_count
  /\ UNCHANGED <<backlog, req, tmp, slept, resp, hist>>

\* A tenth of a second passes while the handler is inside time.sleep.
SleepTick(c) ==
  /\ pc[c] = "sleep"
  /\ sleepLeft[c] > 0
  /\ sleepLeft' = [sleepLeft EXCEPT ![c] = @ - 1]
  /\ slept' = [slept EXCEPT ![c] = @ + 1]
  /\ UNCHANGED <<request_count, backlog, pc, req, tmp, delay, resp, hist>>

\* time.sleep returned: send the /api/slow response.
SlowRespond(c) ==
  /\ pc[c] = "sleep"
  /\ sleepLeft[c] = 0
  /\ Respond(c, JsonResponse(200, SlowBody(delay[c].val)))
  /\ UNCHANGED <<request_count, backlog, req, tmp, delay, sleepLeft, slept, hist>>

\* The connection is shut down and the handler's locals are gone.
Close(c) ==
  /\ pc' = [pc EXCEPT ![c] = "closed"]
  /\ req' = [req EXCEPT ![c] = NoRequest]
  /\ tmp' = [tmp EXCEPT ![c] = 0]
  /\ delay' = [delay EXCEPT ![c] = NoDelay]
  /\ sleepLeft' = [sleepLeft EXCEPT ![c] = 0]
  /\ slept' = [slept EXCEPT ![c] = 0]
  /\ resp' = [resp EXCEPT ![c] = NoResponse]
  /\ last' = [method |-> req[c].method, target |-> req[c].target, outcome |-> Outcome(c)]

\* The handler returned: shutdown_request, back to serve_forever's loop.
Finish(c) ==
  /\ pc[c] = "finish"
  /\ Close(c)
  /\ UNCHANGED <<request_count, backlog, lastCount, peak>>

\* The handler raised: handle_error prints the traceback, the connection is
\* closed without a response, and serve_forever goes on.
HandleError(c) ==
  /\ pc[c] = "raised"
  /\ Close(c)
  /\ UNCHANGED <<request_count, backlog, lastCount, peak>>

ServerStep(c) ==
  \/ Accept(c)
  \/ DoPOST(c)
  \/ LoadCount(c)
  \/ StoreCount(c)
  \/ DoHealth(c)
  \/ DoEcho(c)
  \/ DoSlow(c)
  \/ DoApi(c)
  \/ DoNotFound(c)
  \/ SleepTick(c)
  \/ SlowRespond(c)
  \/ Finish(c)
  \/ HandleError(c)

Next == \E c \in Conns : Connect(c) \/ ServerStep(c)

Spec == Init /\ [][Next]_vars

\* The server thread is always scheduled and time passes; clients are free
\* never to connect.
FairSpec == Spec /\ \A c \in Conns : WF_vars(ServerStep(c))

\* ================================================================ claims
\* The handler of connection c has run to its end (returned or raised) and
\* the connection is not shut down yet.
Handled(c) == pc[c] \in {"finish", "raised"}

\* The request of c is held by the server.
HasRequest(c) == InHandler(c)

\* The value do_GET hands to float() for the request of c.
DelayText(c) == QueryGet(Parsed(c).query, "delay", "1")

\* The query of c names a delay parameter (with any value, also an empty one).
RECURSIVE NamesDelay(_)
NamesDelay(query) ==
  IF query = "" THEN FALSE
  ELSE \/ Before(Before(query, "&"), "=") = "delay"
       \/ NamesDelay(After(query, "&"))

IsSlow(c) == HasRequest(c) /\ Parsed(c).path = "/api/slow"

\* The default delay of 1 second, in tenths.
DefaultDelay == ParseFloat("1").val

\* ---- C1
\* C1: while an /api/slow request is inside its delay, a /health request
\* waiting on another connection can be taken up by the server: the delay
\* of one request never keeps the server from handling the next one.
C1_SlowDoesNotBlockHealth ==
  \A s \in Conns, h \in Conns :
    (/\ pc[s] = "sleep" /\ sleepLeft[s] > 0 /\ IsSlow(s)
     /\ pc[h] = "queued" /\ Head(backlog) = h)
      => ENABLED AcceptRequest(h, "GET", "/health")

\* ---- C2
\* C2: the counter never decreases, moves by at most one per step, and when
\* a handled request is shut down, whatever its route or outcome, the
\* counter is exactly one above the value that request found.
C2_CountsEveryRequestOnce ==
  [][ /\ request_count' >= request_count
      /\ request_count' <= request_count + 1
      /\ \A c \in Conns :
           (Handled(c) /\ pc'[c] = "closed") => request_count' = tmp[c] + 1 ]_vars

\* A second request in a row, not found, has been answered and counted.
C2_Witness ==
  \E c \in Conns :
    /\ pc[c] = "finish" /\ resp[c].status = 404
    /\ tmp[c] >= 1 /\ request_count = tmp[c] + 1
    /\ last.outcome # NoBody /\ UrlParse(last.target).path = "/health"

\* ---- C3
\* C3: the counter equals the number of requests that have passed their
\* increment, so once all N connections, however they overlapped while
\* waiting, have been handled, it equals the initial 0 plus N.
C3_NoLostIncrement ==
  /\ request_count =
       Cardinality({c \in Conns : pc[c] \in {"route", "sleep", "finish", "raised", "closed"}})
  /\ (\A c \in Conns : pc[c] = "closed") => request_count = MaxConns

\* All connections were open at the same time and all have been handled.
C3_Witness ==
  /\ \A c \in Conns : pc[c] = "closed"
  /\ peak = MaxConns
  /\ request_count = MaxConns

\* ---- C4
\* C4 as stated: an /api/slow request naming a delay that is not a valid
\* number is answered 200 with the default delay.
C4_BadDelayDefaults ==
  \A c \in Conns :
    (/\ Handled(c) /\ IsSlow(c) /\ NamesDelay(Parsed(c).query)
     /\ ParseFloat(QueryGet(Parsed(c).query, "delay", "")).kind = "err")
      => resp[c] = JsonResponse(200, SlowBody(DefaultDelay))

\* C4 amended: an /api/slow request whose delay has a non-empty value that
\* float() rejects is not answered at all (the handler raises, nothing is
\* written); a delay with an empty value is dropped by parse_qs and the
\* request is answered 200 with the default delay.
C4_BadDelayRaises ==
  \A c \in Conns :
    (Handled(c) /\ IsSlow(c) /\ NamesDelay(Parsed(c).query)) =>
      LET given == QueryGet(Parsed(c).query, "delay", "")
      IN  /\ (given # "" /\ ParseFloat(given).kind = "err")
               => (pc[c] = "raised" /\ resp[c] = NoResponse)
          /\ given = ""
               => (pc[c] = "finish" /\ resp[c] = JsonResponse(200, SlowBody(DefaultDelay)))

\* The handler of /api/slow?delay=abc has raised.
C4_Witness ==
  \E c \in Conns :
    /\ pc[c] = "raised" /\ IsSlow(c)
    /\ QueryGet(Parsed(c).query, "delay", "") = "abc"
    /\ resp[c] = NoResponse

\* ---- C5
\* The request path with the query string cut off.
PathBeforeQuery(c) == Before(req[c].target, "?")

\* C5 as stated: a handled request is answered 404 {"error": "not found"}
\* exactly when its path without the query string is not /health and does
\* not start with /api/, and 200 otherwise.
C5_DispatchTotalAsStated ==
  \A c \in Conns :
    Handled(c) =>
      IF PathBeforeQuery(c) # "/health" /\ ~StartsWith(PathBeforeQuery(c), "/api/")
      THEN resp[c] = JsonResponse(404, NotFoundBody)
      ELSE resp[c].status = 200

\* The delay of an /api/slow request is refused by float() or time.sleep().
DelayRefused(c) ==
  ParseFloat(DelayText(c)).kind = "err" \/ SleepRaises(ParseFloat(DelayText(c)))

\* C5 amended: with the path as urlparse gives it (query, fragment and
\* ;params cut off), a handled request is answered 404 {"error": "not
\* found"} through the normal response path exactly when that path is not
\* /health and does not start with /api/; every other request is answered
\* 200, except an /api/slow request whose delay float() or time.sleep()
\* refuses, which gets no response.  Some branch is always taken.
C5_DispatchTotal ==
  \A c \in Conns :
    /\ Handled(c) =>
         IF Parsed(c).path # "/health" /\ ~StartsWith(Parsed(c).path, "/api/")
         THEN pc[c] = "finish" /\ resp[c] = JsonResponse(404, NotFoundBody)
         ELSE IF Parsed(c).path = "/api/slow" /\ DelayRefused(c)
         THEN pc[c] = "raised" /\ resp[c] = NoResponse
         ELSE pc[c] = "finish" /\ resp[c].status = 200
    /\ pc[c] = "route" =>
         \E r \in {"health", "echo", "slow", "api", "notfound"} : AtRoute(c, r)

\* /api without the trailing slash has been answered 404.
C5_Witness ==
  \E c \in Conns :
    /\ pc[c] = "finish" /\ req[c].target = "/api"
    /\ resp[c] = JsonResponse(404, NotFoundBody)

\* ---- C6
\* C6: the request_count in an echo or catch-all response is the counter
\* value this request loaded plus one.
C6_CountIsOwnIncrement ==
  \A c \in Conns :
    (pc[c] = "finish" /\ "request_count" \in DOMAIN resp[c].body)
      => resp[c].body.request_count = tmp[c] + 1

\* An echo answered after an earlier request, with another connection waiting.
C6_Witness ==
  \E c \in Conns, d \in Conns :
    /\ pc[c] = "finish" /\ Parsed(c).path = "/api/echo"
    /\ "request_count" \in DOMAIN resp[c].body
    /\ resp[c].body.request_count = tmp[c] + 1
    /\ tmp[c] >= 1
    /\ pc[d] = "queued"

\* ---- C7
\* C7: a handled request and the request handled just before it, when they
\* have the same target and different methods, have the same outcome: same
\* status, same body fields and values (timestamp aside, request_count
\* relative to the counter found) and the same change of the counter.
C7_PostLikeGet ==
  \A c \in Conns :
    (Handled(c) /\ last.target = req[c].target /\ last.method # req[c].method)
      => Outcome(c) = last.outcome

\* A POST of /api/echo?x=1 answered right after a GET of it.
C7_Witness ==
  \E c \in Conns :
    /\ pc[c] = "finish" /\ req[c] = [method |-> "POST", target |-> "/api/echo?x=1"]
    /\ last.method = "GET" /\ last.target = "/api/echo?x=1"
    /\ Outcome(c) = last.outcome
    /\ resp[c].status = 200

\* ---- C8
\* C8 as stated: an /api/slow request whose delay is absent or parses as a
\* number is answered 200 with that delay.
C8_NumberDelayAnswered ==
  \A c \in Conns :
    (Handled(c) /\ IsSlow(c) /\ ParseFloat(DelayText(c)).kind = "num")
      => resp[c] = JsonResponse(200, SlowBody(ParseFloat(DelayText(c)).val))

\* The delay of c is one the handler sleeps through.
SlowAccepted(c) == IsSlow(c) /\ ~DelayRefused(c)

\* C8 amended: an /api/slow request whose delay is absent, empty or parses
\* as a number time.sleep accepts (finite, not negative) is eventually
\* answered 200 with that delay, never before that much time was spent in
\* the sleep, and a sleep once begun is left only by sending the response.
C8_SlowRunsToCompletion ==
  /\ [](\A c \in Conns :
          (pc[c] = "finish" /\ IsSlow(c)) =>
             /\ resp[c] = JsonResponse(200, SlowBody(ParseFloat(DelayText(c)).val))
             /\ slept[c] >= resp[c].body.delay)
  /\ [][\A c \in Conns :
          (pc[c] = "sleep" /\ pc'[c] # "sleep") =>
             (pc'[c] = "finish" /\ resp'[c].status = 200 /\ slept[c] = delay[c].val)]_vars
  /\ \A c \in Conns :
       SlowAccepted(c) ~>
         (pc[c] = "finish" /\ resp[c].status = 200 /\ slept[c] >= ParseFloat(DelayText(c)).val)

\* /api/slow?delay=0.2 answered after two tenths of a second.
C8_Witness ==
  \E c \in Conns :
    /\ pc[c] = "finish" /\ req[c].target = "/api/slow?delay=0.2"
    /\ resp[c] = JsonResponse(200, SlowBody(2))
    /\ slept[c] = 2

C10_FailedRequestIsCounted ==
  \A c \in Conns :
    /\ (Handled(c) /\ IsSlow(c) /\
          (ParseFloat(DelayText(c)).kind = "err" \/ ParseFloat(DelayText(c)).val < 0))
         => pc[c] = "raised"
    /\ pc[c] = "raised" =>
         /\ IsSlow(c)
         /\ resp[c] = NoResponse
         /\ request_count = tmp[c] + 1

\* /api/slow?delay=-1 has raised after an earlier request was counted.
C10_Witness ==
  \E c \in Conns :
    /\ pc[c] = "raised" /\ req[c].target = "/api/slow?delay=-1"
    /\ tmp[c] >= 1 /\ request_count = tmp[c] + 1
    /\ resp[c].status = 0

====
